---- MODULE Spec2Model ----
(***************************************************************************)
(* PLCDataReader (src/plc_reader.py): the serial link, the line parser,    *)
(* the reading store, the ingestion thread, the health thread and the      *)
(* start()/stop() lifecycle, as one state machine.                         *)
(*                                                                         *)
(* Text is a sequence of one-character strings.  The object has no lock:   *)
(* threads interleave between statements, and an action is one statement   *)
(* or a run of statements that touches shared state once.  Time is a       *)
(* discrete clock `now`; during a sleep the other threads and the clock    *)
(* may advance.                                                            *)
(***************************************************************************)
EXTENDS Integers, Sequences, FiniteSets, TLC

(* ------------------------------ bounds -------------------------------- *)

\* Lines the transmitter sends during a run.
MaxLines == 2

\* Last value of the discrete clock.
MaxTime == 2

\* Calls of start() during a run.
MaxStarts == 2

\* deque(maxlen=100) at src/plc_reader.py:32, scaled down: the history
\* capacity of the model.
maxlen == 1

\* reader.health.max_silence_time of the configuration (default 10 at
\* src/plc_reader.py:40), in clock ticks.
max_silence_time == 1

(* ------------------------------- text --------------------------------- *)

\* None, where the other values are strings (self.serial_connection).
None == "None"

\* None, where the other values are readings.
NoReading == [none |-> TRUE]

\* None, where the other values are points in time.
NoTime == 0 - 1

\* The ValueError of float().
ValueError == [error |-> TRUE]

\* What str.strip() removes and the pattern's \s matches.
Whitespace == {" ", "\t", "\r", "\n"}

DigitChars == <<"0", "1", "2", "3", "4", "5", "6", "7", "8", "9">>

Digits == {DigitChars[i] : i \in 1..10}

\* The class [\d.] of the validation pattern.
NumClass == Digits \cup {"."}

DigitValue(c) == (CHOOSE i \in 1..10 : DigitChars[i] = c) - 1

UpperChars == <<"A", "C", "D", "E", "M", "P", "R", "S", "T", "U">>

LowerChars == <<"a", "c", "d", "e", "m", "p", "r", "s", "t", "u">>

\* str.lower() on one character.
LowerChar(c) ==
    IF \E i \in 1..Len(UpperChars) : UpperChars[i] = c
    THEN LowerChars[CHOOSE i \in 1..Len(UpperChars) : UpperChars[i] = c]
    ELSE c

Lower(s) == [i \in 1..Len(s) |-> LowerChar(s[i])]

\* str.strip().
Strip(s) ==
    LET keep == {i \in 1..Len(s) : s[i] \notin Whitespace}
    IN  IF keep = {} THEN <<>>
        ELSE SubSeq(s, CHOOSE i \in keep : \A j \in keep : i <= j,
                       CHOOSE i \in keep : \A j \in keep : i >= j)

\* Index of the first occurrence of character c in s, 0 when absent.
Find(s, c) ==
    LET at == {i \in 1..Len(s) : s[i] = c}
    IN  IF at = {} THEN 0 ELSE CHOOSE i \in at : \A j \in at : i <= j

RECURSIVE Split(_, _)
\* str.split(c).
Split(s, c) ==
    LET i == Find(s, c)
    IN  IF i = 0 THEN <<s>>
        ELSE <<SubSeq(s, 1, i - 1)>> \o Split(SubSeq(s, i + 1, Len(s)), c)

KeyTemperature == <<"T", "E", "M", "P", "E", "R", "A", "T", "U", "R", "E">>

KeyPressure == <<"P", "R", "E", "S", "S", "U", "R", "E">>

KeySpeed == <<"S", "P", "E", "E", "D">>

(* --------------------------- the line parser -------------------------- *)

\* Matching of the pattern, left to right.  A position is the index of the
\* next character to match, 0 once the match has failed.
MatchLit(s, i, lit) ==
    IF i > 0 /\ i + Len(lit) - 1 <= Len(s) /\ SubSeq(s, i, i + Len(lit) - 1) = lit
    THEN i + Len(lit)
    ELSE 0

\* The position after the longest run of characters of class cls from i.
Span(s, i, cls) ==
    CHOOSE j \in i..(Len(s) + 1) :
        /\ \A m \in i..(j - 1) : s[m] \in cls
        /\ (j = Len(s) + 1 \/ s[j] \notin cls)

\* cls+
MatchPlus(s, i, cls) ==
    IF i = 0 THEN 0
    ELSE LET j == Span(s, i, cls) IN IF j > i THEN j ELSE 0

\* cls*
MatchStar(s, i, cls) == IF i = 0 THEN 0 ELSE Span(s, i, cls)

\* ^TEMPERATURE:[\d.]+,\s*PRESSURE:[\d.]+,\s*SPEED:[\d.]+$ on data.strip()
validate_data(data) ==
    LET s  == Strip(data)
        p1 == MatchLit(s, 1, KeyTemperature \o <<":">>)
        p2 == MatchPlus(s, p1, NumClass)
        p3 == MatchStar(s, MatchLit(s, p2, <<",">>), Whitespace)
        p4 == MatchLit(s, p3, KeyPressure \o <<":">>)
        p5 == MatchPlus(s, p4, NumClass)
        p6 == MatchStar(s, MatchLit(s, p5, <<",">>), Whitespace)
        p7 == MatchLit(s, p6, KeySpeed \o <<":">>)
        p8 == MatchPlus(s, p7, NumClass)
    IN  p8 = Len(s) + 1

RECURSIVE DigitsValue(_)
DigitsValue(s) ==
    IF s = <<>> THEN 0
    ELSE 10 * DigitsValue(SubSeq(s, 1, Len(s) - 1)) + DigitValue(s[Len(s)])

RECURSIVE Normalise(_, _)
\* A decimal m / 10^e with the trailing zeros of its fraction removed.
Normalise(m, e) ==
    IF e > 0 /\ m % 10 = 0 THEN Normalise(m \div 10, e - 1)
    ELSE [m |-> m, e |-> e]

\* float() that takes a text it cannot read for zero in place of raising.
Float_no_error(v) ==
    LET dots == {i \in 1..Len(v) : v[i] = "."}
    IN  IF dots = {} \/ Cardinality(dots) > 1 \/ Len(v) = 1
        THEN Normalise(DigitsValue(SelectSeq(v, LAMBDA c : c \in Digits)), 0)
        ELSE LET d == CHOOSE i \in dots : TRUE
             IN  Normalise(DigitsValue(SubSeq(v, 1, d - 1) \o SubSeq(v, d + 1, Len(v))),
                           Len(v) - d)

\* float(v) on a stripped text: the decimal it denotes, ValueError when float()
\* raises it (no digit, a second decimal point, any other character).
Float(v) ==
    LET dots == {i \in 1..Len(v) : v[i] = "."}
        ok   == /\ \A i \in 1..Len(v) : v[i] \in NumClass
                /\ Cardinality(dots) <= 1
                /\ \E i \in 1..Len(v) : v[i] \in Digits
    IN  IF ~ok THEN ValueError
        ELSE IF dots = {} THEN Normalise(DigitsValue(v), 0)
        ELSE LET d == CHOOSE i \in dots : TRUE
             IN  Normalise(DigitsValue(SubSeq(v, 1, d - 1) \o SubSeq(v, d + 1, Len(v))),
                           Len(v) - d)

\* The sensors dict the loop over data.split(',') builds: one entry per part
\* holding a colon, later parts overwriting earlier ones; error when a
\* float() raised.
PartKey(part) == Lower(Strip(SubSeq(part, 1, Find(part, ":") - 1)))

PartValue(part) == Float(Strip(SubSeq(part, Find(part, ":") + 1, Len(part))))

Sensors(s) ==
    LET parts == [i \in 1..Len(Split(s, ",")) |-> Strip(Split(s, ",")[i])]
        with  == {i \in 1..Len(parts) : Find(parts[i], ":") > 0}
        last(k) == CHOOSE i \in with :
                      /\ PartKey(parts[i]) = k
                      /\ \A j \in with : PartKey(parts[j]) = k => j <= i
    IN  [error |-> \E i \in with : PartValue(parts[i]) = ValueError,
         keys  |-> {PartKey(parts[i]) : i \in with},
         value |-> [k \in {PartKey(parts[i]) : i \in with} |-> PartValue(parts[last(k)])]]

\* _parse_sensor_data at time t: a SensorReading, or NoReading.
parse_sensor_data(data, t) ==
    LET s  == Strip(data)
        sv == Sensors(s)
    IN  IF ~validate_data(s) THEN NoReading
        ELSE IF sv.error THEN NoReading
        ELSE IF ~({Lower(KeyTemperature), Lower(KeyPressure), Lower(KeySpeed)} \subseteq sv.keys)
             THEN NoReading
        ELSE [temperature |-> sv.value[Lower(KeyTemperature)],
              pressure    |-> sv.value[Lower(KeyPressure)],
              speed       |-> sv.value[Lower(KeySpeed)],
              timestamp   |-> t,
              raw_data    |-> s]

(* ------------------------------- state -------------------------------- *)

VARIABLES
    is_running,             \* self.is_running
    stop_event,             \* self._stop_event.is_set()
    serial_connection,      \* self.serial_connection: None or an open handle
    is_connected,           \* self.is_connected
    last_reading,           \* self.last_reading
    last_reading_timestamp, \* self.last_reading_timestamp
    last_data_received,     \* self.last_data_received
    data_history,           \* self.data_history, oldest first
    now,                    \* datetime.now()
    leaked,                 \* open handles no attribute refers to any more
    rx,                     \* bytes waiting in the open handle (in_waiting of them)
    dev_sent,               \* lines the transmitter has started
    dev_pending,            \* the rest of the line the transmitter is writing
    rpc,                    \* position of the ingestion thread (_read_serial_data)
    buffer,                 \* its local buffer
    reading,                \* the reading it is storing
    hpc,                    \* position of the health thread (_health_check_loop)
    spc,                    \* position of the thread running start()
    starts,                 \* calls of start() so far
    stopped,                \* a stop() has returned and start() was not called since
    recorded                \* every reading _store_reading appended, in order

vars == <<is_running, stop_event, serial_connection, is_connected, last_reading,
          last_reading_timestamp, last_data_received, data_history, now, leaked,
          rx, dev_sent, dev_pending, rpc, buffer, reading, hpc, spc, starts,
          stopped, recorded>>

store == <<last_reading, last_reading_timestamp, last_data_received, data_history,
           recorded>>

link == <<serial_connection, is_connected, leaked, rx>>

device == <<dev_sent, dev_pending>>

threads == <<rpc, buffer, reading, hpc>>

lifecycle == <<is_running, stop_event, spc, starts, stopped>>

\* PLCDataReader.__init__
Init ==
    /\ is_running = FALSE
    /\ stop_event = FALSE
    /\ serial_connection = None
    /\ is_connected = FALSE
    /\ last_reading = NoReading
    /\ last_reading_timestamp = NoTime
    /\ last_data_received = NoTime
    /\ data_history = <<>>
    /\ now = 0
    /\ leaked = 0
    /\ rx = <<>>
    /\ dev_sent = 0
    /\ dev_pending = <<>>
    /\ rpc = "off"
    /\ buffer = <<>>
    /\ reading = NoReading
    /\ hpc = "off"
    /\ spc = "idle"
    /\ starts = 0
    /\ stopped = FALSE
    /\ recorded = <<>>

(* ------------------------------ queries ------------------------------- *)

\* The default of get_data_history's limit.
NoLimit == 0 - 1

get_last_reading == last_reading

get_last_reading_timestamp == last_reading_timestamp

\* list(self.data_history)[-limit:] when limit is truthy, the whole list
\* otherwise; limit is NoLimit (None) or an integer >= 0.
get_data_history(limit) ==
    IF limit # NoLimit /\ limit # 0
    THEN SubSeq(data_history,
                IF Len(data_history) > limit THEN Len(data_history) - limit + 1 ELSE 1,
                Len(data_history))
    ELSE data_history

\* is_healthy without the test of the reading's age (line 281 returning True).
is_healthy_any_age == is_connected /\ last_data_received # NoTime

\* is_healthy without the test for a missing reading in line 277.
is_healthy_no_reading ==
    IF ~is_connected THEN FALSE
    ELSE last_data_received = NoTime \/ now - last_data_received <= max_silence_time

is_healthy ==
    IF ~is_connected \/ last_data_received = NoTime THEN FALSE
    ELSE now - last_data_received <= max_silence_time

\* serial_connection.is_open, for a handle that exists.
IsOpen == serial_connection # None

check_connection_health == IF serial_connection = None THEN FALSE ELSE IsOpen

\* Open handles of the process: the one self.serial_connection refers to and
\* those it referred to when it was overwritten.
OpenHandles == (IF IsOpen THEN 1 ELSE 0) + leaked

(* ------------------------- clock and transmitter ---------------------- *)

Tick ==
    /\ now < MaxTime
    /\ now' = now + 1
    /\ UNCHANGED <<store, link, device, threads, lifecycle>>

\* The k-th line of the transmitter, without its terminator.
WireLine(k) ==
    KeyTemperature \o <<":", DigitChars[k + 1], ",">> \o KeyPressure \o <<":", "2", ",">>
        \o KeySpeed \o <<":", "3">>

\* Where the transmitter's write of a terminated line may be torn: inside the
\* second key, or not at all.
SplitPoints(line) == {Len(KeyTemperature) + 6, Len(line)}

\* The transmitter writes the first chunk of its next line to the open link.
DevSend ==
    /\ serial_connection # None
    /\ dev_sent < MaxLines
    /\ dev_pending = <<>>
    /\ LET line == WireLine(dev_sent + 1) \o <<"\n">>
       IN  \E p \in SplitPoints(line) :
              /\ rx' = rx \o SubSeq(line, 1, p)
              /\ dev_pending' = SubSeq(line, p + 1, Len(line))
    /\ dev_sent' = dev_sent + 1
    /\ UNCHANGED <<store, now, serial_connection, is_connected, leaked, threads, lifecycle>>

\* It writes the rest of the line; with no open handle the bytes are lost.
DevFlush ==
    /\ dev_pending # <<>>
    /\ rx' = IF serial_connection # None THEN rx \o dev_pending ELSE rx
    /\ dev_pending' = <<>>
    /\ UNCHANGED <<store, now, serial_connection, is_connected, leaked, dev_sent,
                   threads, lifecycle>>

(* -------------------------------- link -------------------------------- *)

\* serial.Serial(...) succeeded at lines 71-75: a new open handle replaces
\* whatever self.serial_connection referred to, which is not closed.
OpenHandle ==
    /\ serial_connection' = "open"
    /\ rx' = <<>>
    /\ leaked' = IF IsOpen THEN leaked + 1 ELSE leaked

\* _disconnect_serial, lines 91-97: the handle is closed and forgotten; the
\* bytes waiting in it are lost
disconnect_close ==
    /\ serial_connection' = None
    /\ rx' = <<>>
    /\ UNCHANGED <<is_connected, leaked>>

\* _disconnect_serial, line 98
disconnect_flag ==
    /\ is_connected' = FALSE
    /\ UNCHANGED <<serial_connection, rx, leaked>>

\* The finalizer of a handle nothing refers to closes it.
Finalize ==
    /\ leaked > 0
    /\ leaked' = leaked - 1
    /\ UNCHANGED <<store, now, serial_connection, is_connected, rx, device, threads,
                   lifecycle>>

(* ----------------- the ingestion thread: _read_serial_data ------------- *)

\* The except clause without line 179: the loop is left, the flag kept.
ReadFault_flag_kept ==
    /\ UNCHANGED is_connected
    /\ rpc' = "done"

\* The except clause of lines 177-180: the loop is left for good.
ReadFault ==
    /\ is_connected' = FALSE
    /\ rpc' = "done"

\* The loop of line 151 without its test: the thread never sees the stop signal.
R_Loop_ignore_stop ==
    /\ rpc = "loop"
    /\ rpc' = "chk"
    /\ UNCHANGED <<store, now, link, device, buffer, reading, hpc, lifecycle>>

\* line 151
R_Loop ==
    /\ rpc = "loop"
    /\ rpc' = IF ~stop_event /\ is_running THEN "chk" ELSE "done"
    /\ UNCHANGED <<store, now, link, device, buffer, reading, hpc, lifecycle>>

\* lines 153-155: with no open handle, sleep and test the loop again
R_Check ==
    /\ rpc = "chk"
    /\ rpc' = IF serial_connection = None \/ ~IsOpen THEN "loop" ELSE "inw"
    /\ UNCHANGED <<store, now, link, device, buffer, reading, hpc, lifecycle>>

\* line 158: in_waiting of a handle that is gone raises, and the driver may
\* raise an I/O error; with nothing waiting, sleep (line 175) and loop.
R_InWaiting ==
    /\ rpc = "inw"
    /\ \/ /\ serial_connection = None
          /\ ReadFault
       \/ /\ serial_connection # None
          /\ ReadFault
       \/ /\ serial_connection # None
          /\ rpc' = IF Len(rx) > 0 THEN "read" ELSE "loop"
          /\ UNCHANGED is_connected
    /\ UNCHANGED <<store, now, serial_connection, leaked, rx, device, buffer, reading,
                   hpc, lifecycle>>

\* buffer = data in place of buffer += data: what was held is lost.
buffer_replace(buf, data) == data

\* line 160: buffer += data
buffer_add(buf, data) == buf \o data

\* lines 159-160: read(in_waiting) takes every waiting byte
R_Read ==
    /\ rpc = "read"
    /\ \/ /\ serial_connection = None
          /\ ReadFault
          /\ UNCHANGED <<rx, buffer>>
       \/ /\ serial_connection # None
          /\ ReadFault
          /\ UNCHANGED <<rx, buffer>>
       \/ /\ serial_connection # None
          /\ buffer' = buffer_add(buffer, rx)
          /\ rx' = <<>>
          /\ rpc' = "split"
          /\ UNCHANGED is_connected
    /\ UNCHANGED <<store, now, serial_connection, leaked, device, reading, hpc, lifecycle>>

\* The inner loop with a rejected line treated as a fault of the link: the
\* flag is cleared and the loop is left.
R_Split_reject_fatal ==
    /\ rpc = "split"
    /\ LET i == Find(buffer, "\n")
           line == Strip(SubSeq(buffer, 1, i - 1))
           r == parse_sensor_data(line, now)
       IN  IF i = 0
           THEN /\ rpc' = "loop"
                /\ UNCHANGED <<buffer, reading, is_connected>>
           ELSE /\ buffer' = SubSeq(buffer, i + 1, Len(buffer))
                /\ IF line # <<>> /\ r # NoReading
                   THEN reading' = r /\ rpc' = "st1" /\ UNCHANGED is_connected
                   ELSE IF line # <<>>
                        THEN ReadFault /\ UNCHANGED reading
                        ELSE UNCHANGED <<reading, rpc, is_connected>>
    /\ UNCHANGED <<store, now, serial_connection, leaked, rx, device, hpc, lifecycle>>

\* lines 163-173: the next complete line leaves the buffer and is parsed; an
\* empty or rejected line is dropped.  With no complete line, sleep and loop.
R_Split ==
    /\ rpc = "split"
    /\ LET i == Find(buffer, "\n")
           line == Strip(SubSeq(buffer, 1, i - 1))
           r == parse_sensor_data(line, now)
       IN  IF i = 0
           THEN /\ rpc' = "loop"
                /\ UNCHANGED <<buffer, reading>>
           ELSE /\ buffer' = SubSeq(buffer, i + 1, Len(buffer))
                /\ IF line # <<>> /\ r # NoReading
                   THEN reading' = r /\ rpc' = "st1"
                   ELSE UNCHANGED <<reading, rpc>>
    /\ UNCHANGED <<store, now, link, device, hpc, lifecycle>>

\* _store_reading, line 140
R_Store1 ==
    /\ rpc = "st1"
    /\ last_reading' = reading
    /\ rpc' = "st2"
    /\ UNCHANGED <<last_reading_timestamp, last_data_received, data_history, recorded,
                   now, link, device, buffer, reading, hpc, lifecycle>>

\* line 141
R_Store2 ==
    /\ rpc = "st2"
    /\ last_reading_timestamp' = reading.timestamp
    /\ rpc' = "st3"
    /\ UNCHANGED <<last_reading, last_data_received, data_history, recorded,
                   now, link, device, buffer, reading, hpc, lifecycle>>

\* line 142
R_Store3 ==
    /\ rpc = "st3"
    /\ last_data_received' = reading.timestamp
    /\ rpc' = "st4"
    /\ UNCHANGED <<last_reading, last_reading_timestamp, data_history, recorded,
                   now, link, device, buffer, reading, hpc, lifecycle>>

\* A full history that refuses the new reading in place of evicting the oldest.
deque_append_keep_oldest(h, r) == IF Len(h) >= maxlen THEN h ELSE h \o <<r>>

\* A list in place of the bounded deque: nothing is ever evicted.
list_append(h, r) == h \o <<r>>

\* deque.append with maxlen: a full deque drops its oldest element.
deque_append(h, r) == IF Len(h) >= maxlen THEN SubSeq(h, Len(h) - maxlen + 2, Len(h)) \o <<r>>
                ELSE h \o <<r>>

\* line 144, and back to the test of line 163
R_Store4 ==
    /\ rpc = "st4"
    /\ data_history' = deque_append(data_history, reading)
    /\ recorded' = recorded \o <<reading>>
    /\ reading' = NoReading
    /\ rpc' = "split"
    /\ UNCHANGED <<last_reading, last_reading_timestamp, last_data_received,
                   now, link, device, buffer, hpc, lifecycle>>

(* ----------------- the health thread: _health_check_loop -------------- *)

\* line 183
H_Loop ==
    /\ hpc = "loop"
    /\ hpc' = IF ~stop_event /\ is_running THEN "check" ELSE "done"
    /\ UNCHANGED <<store, now, link, device, rpc, buffer, reading, lifecycle>>

\* Lines 186-193 without the test of line 188: silence is never noticed.
H_Check_silence_ignored ==
    /\ hpc = "check"
    /\ is_connected' = IF last_data_received # NoTime THEN is_connected ELSE FALSE
    /\ hpc' = "decide"
    /\ UNCHANGED <<store, now, serial_connection, leaked, rx, device, rpc, buffer,
                   reading, lifecycle>>

\* lines 186-193
H_Check ==
    /\ hpc = "check"
    /\ is_connected' =
          IF last_data_received # NoTime
          THEN (IF now - last_data_received > max_silence_time THEN FALSE ELSE is_connected)
          ELSE FALSE
    /\ hpc' = "decide"
    /\ UNCHANGED <<store, now, serial_connection, leaked, rx, device, rpc, buffer,
                   reading, lifecycle>>

\* line 195
H_Decide ==
    /\ hpc = "decide"
    /\ hpc' = IF ~is_connected \/ ~check_connection_health THEN "disc" ELSE "sleep_check"
    /\ UNCHANGED <<store, now, link, device, rpc, buffer, reading, lifecycle>>

\* line 197
H_Disconnect ==
    /\ hpc = "disc"
    /\ disconnect_close
    /\ hpc' = "disc2"
    /\ UNCHANGED <<store, now, device, rpc, buffer, reading, lifecycle>>

H_Disconnected ==
    /\ hpc = "disc2"
    /\ disconnect_flag
    /\ hpc' = "conn"
    /\ UNCHANGED <<store, now, device, rpc, buffer, reading, lifecycle>>

\* Line 199 with the `continue` of line 202 but without the sleep of line 201:
\* a failed open is followed by the next tick at once.
H_Connect_retry_at_once ==
    /\ hpc = "conn"
    /\ \/ /\ OpenHandle
          /\ hpc' = "conn2"
       \/ /\ hpc' = "loop"
          /\ UNCHANGED <<serial_connection, rx, leaked>>
    /\ UNCHANGED <<store, now, is_connected, device, rpc, buffer, reading, lifecycle>>

\* line 199, _connect_serial lines 69-75: the port opens, or serial.Serial
\* raises and _connect_serial returns False
H_Connect ==
    /\ hpc = "conn"
    /\ \/ /\ OpenHandle
          /\ hpc' = "conn2"
       \/ /\ hpc' = "sleep_retry"
          /\ UNCHANGED <<serial_connection, rx, leaked>>
    /\ UNCHANGED <<store, now, is_connected, device, rpc, buffer, reading, lifecycle>>

\* _connect_serial lines 76-78 after its sleep: with the handle gone in
\* between, is_open raises and _connect_serial returns False (lines 86-88)
H_IsOpen ==
    /\ hpc = "conn2"
    /\ hpc' = IF serial_connection # None THEN "conn3" ELSE "sleep_retry"
    /\ UNCHANGED <<store, now, link, device, rpc, buffer, reading, lifecycle>>

\* _connect_serial returning True without setting is_connected.
H_Connected_flag_unset ==
    /\ hpc = "conn3"
    /\ hpc' = "sleep_check"
    /\ UNCHANGED <<store, now, link, device, rpc, buffer, reading, lifecycle>>

\* A reopen that also starts the ingestion loop again when it has exited.
H_Connected_restarts_reader ==
    /\ hpc = "conn3"
    /\ is_connected' = TRUE
    /\ hpc' = "sleep_check"
    /\ rpc' = IF rpc = "done" THEN "loop" ELSE rpc
    /\ UNCHANGED <<store, now, serial_connection, leaked, rx, device, buffer,
                   reading, lifecycle>>

\* _connect_serial lines 80-81
H_Connected ==
    /\ hpc = "conn3"
    /\ is_connected' = TRUE
    /\ hpc' = "sleep_check"
    /\ UNCHANGED <<store, now, serial_connection, leaked, rx, device, rpc, buffer,
                   reading, lifecycle>>

\* line 204: time.sleep(self.health_check_interval)
H_SleepCheck ==
    /\ hpc = "sleep_check"
    /\ hpc' = "loop"
    /\ UNCHANGED <<store, now, link, device, rpc, buffer, reading, lifecycle>>

\* lines 201-202: time.sleep(self.connection_retry_interval); continue
H_SleepRetry ==
    /\ hpc = "sleep_retry"
    /\ hpc' = "loop"
    /\ UNCHANGED <<store, now, link, device, rpc, buffer, reading, lifecycle>>

(* ----------------------- lifecycle: start(), stop() -------------------- *)

\* A start() that empties the reading store before it begins.
Start_clears_store ==
    /\ spc = "idle"
    /\ rpc \in {"off", "done"}
    /\ hpc \in {"off", "done"}
    /\ starts < MaxStarts
    /\ starts' = starts + 1
    /\ is_running' = TRUE
    /\ stop_event' = FALSE
    /\ stopped' = FALSE
    /\ spc' = "connect"
    /\ last_reading' = NoReading
    /\ last_reading_timestamp' = NoTime
    /\ last_data_received' = NoTime
    /\ data_history' = <<>>
    /\ UNCHANGED <<recorded, now, link, device, threads>>

\* start() is called, lines 221-223.  The model calls it again only once the
\* threads of the previous run have exited.
Start ==
    /\ spc = "idle"
    /\ rpc \in {"off", "done"}
    /\ hpc \in {"off", "done"}
    /\ starts < MaxStarts
    /\ starts' = starts + 1
    /\ is_running' = TRUE
    /\ stop_event' = FALSE
    /\ stopped' = FALSE
    /\ spc' = "connect"
    /\ UNCHANGED <<store, now, link, device, threads>>

\* line 226, _connect_serial lines 69-75; on failure start() returns (line 228)
S_Connect ==
    /\ spc = "connect"
    /\ \/ /\ OpenHandle
          /\ spc' = "connect2"
       \/ /\ spc' = "idle"
          /\ UNCHANGED <<serial_connection, rx, leaked>>
    /\ UNCHANGED <<store, now, is_connected, device, threads, is_running, stop_event,
                   starts, stopped>>

\* _connect_serial lines 76-81 after its sleep; no other thread of the reader
\* runs, and the handle is still there
S_Connected ==
    /\ spc = "connect2"
    /\ is_connected' = TRUE
    /\ spc' = "launch"
    /\ UNCHANGED <<store, now, serial_connection, leaked, rx, device, threads,
                   is_running, stop_event, starts, stopped>>

\* lines 231-236: both threads start, the ingestion thread with an empty buffer
S_Launch ==
    /\ spc = "launch"
    /\ rpc' = "loop"
    /\ buffer' = <<>>
    /\ reading' = NoReading
    /\ hpc' = "loop"
    /\ spc' = "main"
    /\ UNCHANGED <<store, now, link, device, is_running, stop_event, starts, stopped>>

\* lines 240-248: the loop ends on KeyboardInterrupt, or once a stop() called
\* from another thread (src/main.py:79) has changed the flags; either way
\* stop() follows in this thread
S_Main ==
    /\ spc = "main"
    /\ spc' = "stop1"
    /\ UNCHANGED <<store, now, link, device, threads, is_running, stop_event,
                   starts, stopped>>

\* stop(), lines 252-253
stop_signal ==
    /\ is_running' = FALSE
    /\ stop_event' = TRUE


\* stop(), as start() calls it at line 248
S_Stop1 ==
    /\ spc = "stop1"
    /\ stop_signal
    /\ spc' = "stop2"
    /\ UNCHANGED <<store, now, link, device, threads, starts, stopped>>

\* stop(), lines 256-262: each join has returned, because its thread exited
\* or because its timeout of 5 s passed, and _disconnect_serial begins
S_Stop2 ==
    /\ spc = "stop2"
    /\ disconnect_close
    /\ spc' = "stop3"
    /\ UNCHANGED <<store, now, device, threads, is_running, stop_event, starts, stopped>>

\* _disconnect_serial ends, stop() returns and with it start()
S_Stop3 ==
    /\ spc = "stop3"
    /\ disconnect_flag
    /\ stopped' = TRUE
    /\ spc' = "idle"
    /\ UNCHANGED <<store, now, device, threads, is_running, stop_event, starts>>

(* ---------------------------- specification --------------------------- *)

Next ==
    \/ Tick \/ DevSend \/ DevFlush \/ Finalize
    \/ R_Loop \/ R_Check \/ R_InWaiting \/ R_Read \/ R_Split
    \/ R_Store1 \/ R_Store2 \/ R_Store3 \/ R_Store4
    \/ H_Loop \/ H_Check \/ H_Decide \/ H_Disconnect \/ H_Disconnected
    \/ H_Connect \/ H_IsOpen \/ H_Connected
    \/ H_SleepCheck \/ H_SleepRetry
    \/ Start \/ S_Connect \/ S_Connected \/ S_Launch \/ S_Main
    \/ S_Stop1 \/ S_Stop2 \/ S_Stop3

Spec == Init /\ [][Next]_vars

\* The steps of the ingestion thread outside the inner loop of lines 163-173,
\* and the steps of the health thread.
Reader ==
    \/ R_Loop \/ R_Check \/ R_InWaiting \/ R_Read
    \/ R_Store1 \/ R_Store2 \/ R_Store3 \/ R_Store4

Health ==
    \/ H_Loop \/ H_Check \/ H_Decide \/ H_Disconnect \/ H_Disconnected
    \/ H_Connect \/ H_IsOpen \/ H_Connected
    \/ H_SleepCheck \/ H_SleepRetry

\* The steps of the thread that called start(), but for the end of its main
\* loop, which waits for an interrupt or for a stop() from outside.
Starter ==
    \/ S_Connect \/ S_Connected \/ S_Launch
    \/ S_Stop1 \/ S_Stop2 \/ S_Stop3

\* All are threads the interpreter keeps scheduling, and each of their sleeps
\* ends: a thread that can take a step eventually takes one.  For R_Split,
\* which is enabled exactly when rpc = "split" and shortens the buffer or
\* leaves the inner loop, weak fairness is the last conjunct: the thread does
\* not stay at line 163 for ever.  Nothing obliges the clock, the transmitter
\* or the callers of start() and stop().
SpecLive ==
    /\ Spec
    /\ WF_vars(Reader)
    /\ WF_vars(Health)
    /\ WF_vars(Starter)
    /\ []<>(rpc # "split")

(* ------------------------ the reading store --------------------------- *)

\* The ingestion thread is inside _store_reading (lines 140-144).
Storing == rpc \in {"st1", "st2", "st3", "st4"}

\* How recent a reading is: its place among the readings recorded so far,
\* one more for the reading being stored, 0 for no reading.
Recency(r) ==
    IF r = NoReading THEN 0
    ELSE IF \E i \in 1..Len(recorded) : recorded[i] = r
         THEN CHOOSE i \in 1..Len(recorded) : recorded[i] = r
         ELSE Len(recorded) + 1

\* The last n elements of h.
LastN(h, n) == SubSeq(h, IF Len(h) > n THEN Len(h) - n + 1 ELSE 1, Len(h))

\* C1 (as claimed): a reader that calls get_last_reading(),
\* get_last_reading_timestamp() and get_data_history() back to back never
\* gets a latest reading newer than the last element of the history, nor one
\* older than the second-to-last, and gets the latest reading's own timestamp:
\* _store_reading is observed as one atomic step.
C1_RecordAtomic ==
    LET h == get_data_history(NoLimit)
        l == get_last_reading
    IN  /\ Recency(l) <= (IF h = <<>> THEN 0 ELSE Recency(h[Len(h)]))
        /\ Len(h) >= 2 => Recency(l) >= Recency(h[Len(h) - 1])
        /\ get_last_reading_timestamp = (IF l = NoReading THEN NoTime ELSE l.timestamp)

C12_HistoryLimit ==
    /\ \A limit \in 0..(maxlen + 1) :
          get_data_history(limit) =
              LastN(data_history,
                    IF limit < Len(data_history) THEN limit ELSE Len(data_history))
    /\ get_data_history(NoLimit) = LastN(recorded, Len(data_history))

(* ------------------------------- health ------------------------------- *)

\* now - last reading timestamp exceeds max_silence_time.
Silent ==
    /\ last_reading_timestamp # NoTime
    /\ now - last_reading_timestamp > max_silence_time

\* C4: once now - last reading timestamp exceeds max_silence_time,
\* is_healthy() is false, and the silence (with it the verdict) ends only by
\* the ingestion thread recording a new reading (line 141 of _store_reading),
\* whatever the health thread does in between.
C4_SilentUnhealthy ==
    /\ [](Silent => ~is_healthy)
    /\ [][(Silent /\ ~Silent') => (rpc = "st2" /\ rpc' = "st3")]_vars

\* The last reading is too old while the link is open and marked connected.
C4_Witness ==
    /\ Silent
    /\ is_connected
    /\ IsOpen

\* C5: as long as no reading has been recorded (no _store_reading has begun:
\* get_last_reading() is None), is_healthy() is false, also with is_connected
\* true and the handle open.
C5_NoReadingUnhealthy == get_last_reading = NoReading => ~is_healthy

\* Nothing recorded yet, the link open and marked connected.
C5_Witness ==
    /\ get_last_reading = NoReading
    /\ is_connected
    /\ IsOpen

\* The health thread completes a successful reopen: _connect_serial sets
\* is_connected and returns True (lines 78-81).
Reopened == hpc = "conn3" /\ hpc' = "sleep_check"

\* The last reading exists and is within max_silence_time.
Fresh ==
    /\ last_data_received # NoTime
    /\ now - last_data_received <= max_silence_time

\* C6 (as claimed): if is_healthy() was false before a successful reopen by
\* the health thread, it is still false after it.
C6_ReopenNotHealthy == [][(Reopened /\ ~is_healthy) => ~is_healthy']_vars

\* C6 (amended): after a successful reopen by the health thread is_healthy()
\* is true exactly when the last reading is within max_silence_time; with no
\* reading yet, or a reading older than that, it stays false.
C6_ReopenHealthyIffFresh == [][Reopened => (is_healthy' <=> Fresh)]_vars

\* The health thread has reopened the link and is about to mark it connected,
\* the last reading being too old.
C6_Witness ==
    /\ hpc = "conn3"
    /\ serial_connection # None
    /\ last_data_received # NoTime
    /\ ~Fresh

(* ------------------------------ lifecycle ----------------------------- *)

\* C7 (as claimed): after stop() has returned, and until start() is called
\* again, the latest reading and the history do not change.
C7_NoRecordAfterStop ==
    [][stopped => UNCHANGED <<last_reading, last_reading_timestamp,
                              last_data_received, data_history>>]_vars

\* C8 (as claimed): after stop() has returned, and until start() is called
\* again, no link handle is open.
C8_ClosedAfterStop == stopped => OpenHandles = 0

\* C9 (as claimed): at most one link handle is open at any time.
C9_OneHandle == OpenHandles <= 1

(* ----------------------------- torn lines ------------------------------ *)

\* The ingestion thread alone with a transmitter whose write of one line is
\* torn at an arbitrary place: start() has opened the link and launched the
\* threads, and the first p characters of the line have arrived.  The line's
\* terminator is in the part still to come.
InitTorn ==
    /\ is_running = TRUE
    /\ stop_event = FALSE
    /\ serial_connection = "open"
    /\ is_connected = TRUE
    /\ last_reading = NoReading
    /\ last_reading_timestamp = NoTime
    /\ last_data_received = NoTime
    /\ data_history = <<>>
    /\ now = 0
    /\ leaked = 0
    /\ dev_sent = 1
    /\ \E p \in 1..Len(WireLine(1)) :
          /\ rx = SubSeq(WireLine(1), 1, p)
          /\ dev_pending = SubSeq(WireLine(1) \o <<"\n">>, p + 1, Len(WireLine(1)) + 1)
    /\ rpc = "loop"
    /\ buffer = <<>>
    /\ reading = NoReading
    /\ hpc = "loop"
    /\ spc = "main"
    /\ starts = 1
    /\ stopped = FALSE
    /\ recorded = <<>>

NextTorn ==
    \/ Tick \/ DevFlush
    \/ R_Loop \/ R_Check \/ R_InWaiting \/ R_Read \/ R_Split
    \/ R_Store1 \/ R_Store2 \/ R_Store3 \/ R_Store4

SpecTorn == InitTorn /\ [][NextTorn]_vars

\* The ingestion thread is between reads, with nothing left to read.
Drained == rx = <<>> /\ rpc \in {"loop", "chk", "inw"}

\* C10: a line split across two reads is held in the buffer until its
\* terminator arrives.  Wherever the line is torn: before the terminator has
\* been sent nothing is recorded, and once the first chunk has been read the
\* buffer holds exactly that chunk; after the read that brings the rest,
\* exactly one reading is recorded, the one the whole line denotes, and the
\* buffer is empty.
C10_TornLineHeld ==
    /\ dev_pending # <<>> =>
          /\ recorded = <<>>
          /\ get_last_reading = NoReading
          /\ ~Storing
          /\ Drained => buffer \o dev_pending = WireLine(1) \o <<"\n">>
    /\ (dev_pending = <<>> /\ Drained) =>
          /\ Len(recorded) = 1
          /\ recorded[1].raw_data = WireLine(1)
          /\ recorded[1].temperature = [m |-> 1, e |-> 0]
          /\ recorded[1].pressure = [m |-> 2, e |-> 0]
          /\ recorded[1].speed = [m |-> 3, e |-> 0]
          /\ get_data_history(NoLimit) = recorded
          /\ buffer = <<>>

\* The first read has taken the first chunk "TEMPERATURE:1,PRE" of the torn
\* line; the rest is still to come and nothing is recorded.
C10_Witness ==
    /\ buffer = SubSeq(WireLine(1), 1, Len(KeyTemperature) + 6)
    /\ dev_pending # <<>>
    /\ Drained
    /\ recorded = <<>>

(* --------------------------- parser inputs ---------------------------- *)

\* Numerals of the wire format (digits with at most one decimal point, as the
\* transmitter's f"{value}" writes them), each with the number it denotes.
Numerals ==
    { [text |-> <<"1">>,           value |-> [m |-> 1,  e |-> 0]],
      [text |-> <<"2", ".", "5">>, value |-> [m |-> 25, e |-> 1]],
      [text |-> <<"1", ".">>,      value |-> [m |-> 1,  e |-> 0]],
      [text |-> <<".", "5">>,      value |-> [m |-> 5,  e |-> 1]] }

\* Values that are no number: two decimal points, a lone point, nothing, a
\* letter.
NonNumerals == { <<"1", ".", "2", ".", "3">>, <<".">>, <<>>, <<"x">> }

ValueTexts == {n.text : n \in Numerals} \cup NonNumerals

\* KEY:value
Field(key, v) == key \o <<":">> \o v

\* Three comma-separated parts, `gap` after each comma.
Line3(a, b, c, gap) == a \o <<",">> \o gap \o b \o <<",">> \o gap \o c

\* Temperature for TEMPERATURE.
Capitalised(key) == <<key[1]>> \o Tail(Lower(key))

\* Lines in the wire format, given numerals for the values.
MatchingShapes == {"plain", "spaced", "crlf"}

\* Lines with a required field or a colon missing.
ViolatingShapes == {"no_temperature", "no_speed", "no_colon"}

\* Lines in the wire format but for the letter case of their keys.
CaseShapes == {"lower", "capitalised"}

Shapes == MatchingShapes \cup ViolatingShapes \cup CaseShapes

\* The line of a shape with the value texts t, p and s, without terminator.
InputLine(shape, t, p, s) ==
    CASE shape = "plain" ->
            Line3(Field(KeyTemperature, t), Field(KeyPressure, p), Field(KeySpeed, s), <<>>)
      [] shape = "spaced" ->
            Line3(Field(KeyTemperature, t), Field(KeyPressure, p), Field(KeySpeed, s), <<" ">>)
      [] shape = "crlf" ->
            Line3(Field(KeyTemperature, t), Field(KeyPressure, p), Field(KeySpeed, s), <<>>)
                \o <<"\r">>
      [] shape = "no_temperature" ->
            Field(KeyPressure, p) \o <<",">> \o Field(KeySpeed, s)
      [] shape = "no_speed" ->
            Field(KeyTemperature, t) \o <<",">> \o Field(KeyPressure, p)
      [] shape = "no_colon" ->
            Line3(Field(KeyTemperature, t), KeyPressure \o p, Field(KeySpeed, s), <<>>)
      [] shape = "lower" ->
            Line3(Field(Lower(KeyTemperature), t), Field(Lower(KeyPressure), p),
                  Field(Lower(KeySpeed), s), <<>>)
      [] shape = "capitalised" ->
            Line3(Field(Capitalised(KeyTemperature), t), Field(Capitalised(KeyPressure), p),
                  Field(Capitalised(KeySpeed), s), <<>>)

\* The ingestion thread alone, the link open and the threads launched, with
\* one line of any shape and any values waiting in the handle; the
\* transmitter's regular lines follow.
InitParse ==
    /\ is_running = TRUE
    /\ stop_event = FALSE
    /\ serial_connection = "open"
    /\ is_connected = TRUE
    /\ last_reading = NoReading
    /\ last_reading_timestamp = NoTime
    /\ last_data_received = NoTime
    /\ data_history = <<>>
    /\ now = 0
    /\ leaked = 0
    /\ dev_sent = 0
    /\ dev_pending = <<>>
    /\ \E shape \in Shapes : \E t \in ValueTexts, p \in ValueTexts, s \in ValueTexts :
          rx = InputLine(shape, t, p, s) \o <<"\n">>
    /\ rpc = "loop"
    /\ buffer = <<>>
    /\ reading = NoReading
    /\ hpc = "loop"
    /\ spc = "main"
    /\ starts = 1
    /\ stopped = FALSE
    /\ recorded = <<>>

NextParse ==
    \/ DevSend \/ DevFlush
    \/ R_Loop \/ R_Check \/ R_InWaiting \/ R_Read \/ R_Split
    \/ R_Store1 \/ R_Store2 \/ R_Store3 \/ R_Store4

SpecParse == InitParse /\ [][NextParse]_vars

\* The wire-format lines among the inputs, each with the values it transmits.
WireLines ==
    { [text        |-> InputLine(shape, t.text, p.text, s.text),
       temperature |-> t.value,
       pressure    |-> p.value,
       speed       |-> s.value] :
        shape \in MatchingShapes, t \in Numerals, p \in Numerals, s \in Numerals }

\* The inputs that violate the wire format: a field or a colon missing, or a
\* value that is no number.
ViolatingLines ==
    { InputLine(shape, t, p, s) :
        shape \in ViolatingShapes, t \in ValueTexts, p \in ValueTexts, s \in ValueTexts }
    \cup
    UNION { { InputLine(shape, t, p, s) : t \in ValueTexts, p \in ValueTexts, s \in NonNumerals }
            \cup { InputLine(shape, t, p, s) : t \in ValueTexts, p \in NonNumerals, s \in ValueTexts }
            \cup { InputLine(shape, t, p, s) : t \in NonNumerals, p \in ValueTexts, s \in ValueTexts }
            : shape \in MatchingShapes }

\* The ingestion thread is about to take a line out of its buffer (line 164).
Extracting == rpc = "split" /\ Find(buffer, "\n") > 0

\* That line, as received.
NextLine == SubSeq(buffer, 1, Find(buffer, "\n") - 1)

\* Line 164 has taken the line out of the buffer.
Extracted == Extracting /\ buffer' = SubSeq(buffer, Find(buffer, "\n") + 1, Len(buffer))

\* C11: _parse_sensor_data rejects (returns None for) every line that violates
\* the wire format - a required field missing, a value that is no number, a
\* colon missing - without raising and without producing a reading; for every
\* line in the wire format it returns a reading whose temperature, pressure
\* and speed are the transmitted numbers.
C11_ParseTotal ==
    [][Extracted =>
          /\ NextLine \in ViolatingLines =>
                /\ parse_sensor_data(NextLine, now) = NoReading
                /\ rpc' = "split"
                /\ reading' = NoReading
          /\ \A w \in WireLines : w.text = NextLine =>
                /\ rpc' = "st1"
                /\ reading'.temperature = w.temperature
                /\ reading'.pressure = w.pressure
                /\ reading'.speed = w.speed]_vars

\* The parser has accepted "TEMPERATURE:2.5, PRESSURE:1., SPEED:.5".
C11_Witness ==
    /\ rpc = "st1"
    /\ reading.raw_data = InputLine("spaced", <<"2", ".", "5">>, <<"1", ".">>, <<".", "5">>)
    /\ reading.temperature = [m |-> 25, e |-> 1]
    /\ reading.pressure = [m |-> 1, e |-> 0]
    /\ reading.speed = [m |-> 5, e |-> 1]

\* The inputs that differ from a wire-format line only in the letter case of
\* their keys, each with the values it transmits.
CaseLines ==
    { [text        |-> InputLine(shape, t.text, p.text, s.text),
       temperature |-> t.value,
       pressure    |-> p.value,
       speed       |-> s.value] :
        shape \in CaseShapes, t \in Numerals, p \in Numerals, s \in Numerals }

\* C17 (as claimed): keys are case-insensitive on receive.  A line that
\* differs from a wire-format line only in the letter case of its keys, such
\* as temperature:1,pressure:2.5,speed:.5, is accepted with the same three
\* values.
C17_KeysCaseInsensitive ==
    [][Extracted =>
          \A w \in CaseLines : w.text = NextLine =>
              /\ rpc' = "st1"
              /\ reading'.temperature = w.temperature
              /\ reading'.pressure = w.pressure
              /\ reading'.speed = w.speed]_vars

\* The transmitter has sent all its lines and the ingestion thread has read
\* and split everything.
AllRead == dev_sent = MaxLines /\ dev_pending = <<>> /\ Drained /\ buffer = <<>>

\* C13: a line the parser rejects is dropped without effect.  The step that
\* takes it out of the buffer leaves the latest reading, its timestamp, the
\* history, the connected flag and the link handle as they were and stays in
\* the ingestion loop; the valid lines that follow it, in the same read or in
\* later ones, are all recorded.
C13_MalformedDropped ==
    /\ [][(Extracted /\ Strip(NextLine) # <<>>
                     /\ parse_sensor_data(NextLine, now) = NoReading) =>
             /\ rpc' = "split"
             /\ UNCHANGED <<last_reading, last_reading_timestamp, last_data_received,
                            data_history, recorded, is_connected, serial_connection>>]_vars
    /\ [](AllRead =>
             \A k \in 1..MaxLines :
                 \E i \in 1..Len(recorded) : recorded[i].raw_data = WireLine(k))

\* The first line was rejected, and the transmitter's lines that came after it
\* are recorded.
C13_Witness ==
    /\ AllRead
    /\ Len(recorded) = MaxLines
    /\ recorded[1].raw_data = WireLine(1)

(* ------------------------------ I/O faults ----------------------------- *)

\* in_waiting (line 158) or read (line 159) raises and the except clause of
\* lines 177-180 runs.
Faulted == rpc \in {"inw", "read"} /\ rpc' = "done"

\* C14: when a read from the link fails, the ingestion loop sets is_connected
\* to false and ends its run; the latest reading, the timestamps and the
\* history are as before, nothing of the failed read reaches the buffer, and
\* the thread ends in the ordinary way: it is only started again by start().
C14_FaultExits ==
    /\ [][Faulted =>
             /\ ~is_connected'
             /\ UNCHANGED <<last_reading, last_reading_timestamp, last_data_received,
                            data_history, recorded, buffer>>]_vars
    /\ [][(rpc = "done" /\ rpc' # "done") => (spc = "launch" /\ rpc' = "loop")]_vars

\* The ingestion thread has left its loop on a fault, after a reading was
\* recorded and while the reader is running.
C14_Witness ==
    /\ rpc = "done"
    /\ spc = "main"
    /\ is_running
    /\ ~stop_event
    /\ ~is_connected
    /\ recorded # <<>>

(* ------------------------------ liveness ------------------------------ *)

\* An open of the link has failed and nothing has been opened since: start()
\* has returned at line 228 (it alone leaves is_running set with its thread
\* idle), or the health thread is in the back-off of line 201.
OpenFailed ==
    \/ spc = "idle" /\ is_running /\ ~stop_event /\ serial_connection = None
    \/ hpc = "sleep_retry"

\* C15 (as claimed): every failed open, that of start() included, is
\* eventually followed by an open attempt of the health thread (line 199),
\* unless stop() is called first.
C15_OpenRetried == OpenFailed ~> (hpc = "conn" \/ stop_event)

\* Neither thread is running.
Exited == rpc \in {"off", "done"} /\ hpc \in {"off", "done"}

\* C16: once stop() has raised the stop signal, the ingestion thread and the
\* health thread both leave their loops, whatever state they were in.
C16_StopTerminates == stop_event ~> Exited

\* The stop signal is raised while the link is closed, the health thread is in
\* its retry back-off and the ingestion thread is still in its loop.
C16_Witness ==
    /\ stop_event
    /\ hpc = "sleep_retry"
    /\ serial_connection = None
    /\ rpc \notin {"off", "done"}

(* ------------------------ link state and flags ------------------------ *)

\* C18 (as claimed): a closed link is a transient condition for the ingestion
\* thread.  While the reader is not being stopped, the thread never leaves its
\* loop at a moment the link is closed: a close by the health thread makes it
\* back off (lines 153-155), not exit.
C18_ClosedLinkNotFatal ==
    [][(rpc # "done" /\ rpc' = "done" /\ serial_connection = None) =>
          (stop_event \/ ~is_running)]_vars

\* C19 (as claimed): a live link handle implies is_connected.
C19_LiveImpliesConnected == IsOpen => is_connected

\* What lines 186-193 of a health tick look for: no reading was ever
\* recorded, or the last one is older than max_silence_time.
SilenceFound ==
    \/ last_data_received = NoTime
    \/ now - last_data_received > max_silence_time

\* What line 195 of a health tick looks for: the flag cleared, or the handle
\* missing or not open.
LinkDown == ~is_connected \/ serial_connection = None \/ ~IsOpen

\* C20: a health tick evaluates the silence conditions at lines 186-193 and
\* the connected flag and the handle at line 195.  If it finds no reading or a
\* silence longer than max_silence_time it clears is_connected, and the flag
\* stays cleared until the decision; if the flag is cleared or the handle is
\* missing at the decision, the thread closes the link (handle dropped, then
\* flag cleared) and attempts to open it again.  If it finds none of these, it
\* leaves flag and handle as they are and goes to its sleep without closing or
\* opening anything.
C20_TickReconnects ==
    /\ [][(hpc = "check" /\ hpc' # hpc) =>
             /\ hpc' = "decide"
             /\ is_connected' = (is_connected /\ ~SilenceFound)
             /\ UNCHANGED <<serial_connection, leaked>>]_vars
    /\ [][(hpc = "decide" /\ ~is_connected) => ~is_connected']_vars
    /\ [][(hpc = "decide" /\ hpc' # hpc) =>
             /\ hpc' = (IF LinkDown THEN "disc" ELSE "sleep_check")
             /\ UNCHANGED <<serial_connection, is_connected, leaked>>]_vars
    /\ [][(hpc = "disc" /\ hpc' # hpc) =>
             (hpc' = "disc2" /\ serial_connection' = None)]_vars
    /\ [][(hpc = "disc2" /\ hpc' # hpc) => (hpc' = "conn" /\ ~is_connected')]_vars
    /\ [][(hpc = "conn" /\ hpc' # hpc) =>
             \/ hpc' = "conn2" /\ serial_connection' # None
             \/ hpc' = "sleep_retry" /\ UNCHANGED serial_connection]_vars
    /\ [][(hpc = "sleep_check" /\ hpc' # hpc) =>
             (hpc' = "loop" /\ UNCHANGED <<serial_connection, is_connected, leaked>>)]_vars

\* A tick found the last reading too old, the link has been closed and the
\* open attempt is next.
C20_Witness ==
    /\ hpc = "conn"
    /\ serial_connection = None
    /\ ~is_connected
    /\ last_data_received # NoTime
    /\ now - last_data_received > max_silence_time

(* --------------------------- reconnect pacing -------------------------- *)

\* The health thread is in one of its sleeps (lines 201 and 204).
Waiting == hpc \in {"sleep_retry", "sleep_check"}

\* C21: a failed reopen by the health thread leaves is_connected false and no
\* handle, and the thread goes into its retry sleep.  An open attempt (line
\* 199) is only reached from the close of the same tick; a tick only starts
\* at the loop test, and the loop test is only reached from a sleep or from
\* the launch of the thread: between two open attempts of the health thread
\* lies a sleep, the retry interval after a failure and the health-check
\* interval after a success.
C21_RetryAfterWait ==
    /\ [](hpc = "sleep_retry" => (~is_connected /\ serial_connection = None))
    /\ [][(hpc = "conn" /\ hpc' # hpc) => hpc' \in {"conn2", "sleep_retry"}]_vars
    /\ [][(hpc = "conn2" /\ hpc' # hpc) => hpc' \in {"conn3", "sleep_retry"}]_vars
    /\ [][(hpc = "conn3" /\ hpc' # hpc) => hpc' = "sleep_check"]_vars
    /\ [][(Waiting /\ hpc' # hpc) => hpc' = "loop"]_vars
    /\ [][(hpc' = "loop" /\ hpc # "loop") => (Waiting \/ spc = "launch")]_vars
    /\ [][(hpc' = "conn" /\ hpc # "conn") => hpc = "disc2"]_vars
    /\ [][(hpc' = "disc2" /\ hpc # "disc2") => hpc = "disc"]_vars
    /\ [][(hpc' = "disc" /\ hpc # "disc") => hpc = "decide"]_vars
    /\ [][(hpc' = "decide" /\ hpc # "decide") => hpc = "check"]_vars
    /\ [][(hpc' = "check" /\ hpc # "check") => hpc = "loop"]_vars

\* A reopen has failed while the reader is running: the health thread is in
\* its retry sleep with the link closed.
C21_Witness ==
    /\ hpc = "sleep_retry"
    /\ is_running
    /\ ~stop_event
    /\ serial_connection = None
    /\ ~is_connected

(* ----------------------- who writes the store -------------------------- *)

\* The latest reading, its timestamp, last_data_received and the history.
readings == <<last_reading, last_reading_timestamp, last_data_received, data_history>>

\* C22: the reading store is written by the ingestion path alone.  Any step
\* that changes the latest reading, its timestamp, last_data_received or the
\* history is a statement of _store_reading run by the ingestion thread; the
\* steps of the health thread, of start() and of stop() leave all four as
\* they are, and so do the queries, which are functions of the state.
C22_StoreFrame ==
    /\ [][readings' # readings => (Storing /\ rpc' # rpc)]_vars
    /\ [][(hpc' # hpc \/ spc' # spc) => readings' = readings]_vars

\* start() has been called a second time, after ticks of the health thread
\* and a stop(), and the reading recorded in the first run is still the
\* latest one and still in the history.
C22_Witness ==
    /\ starts = 2
    /\ spc = "connect"
    /\ hpc = "done"
    /\ rpc = "done"
    /\ Len(recorded) = 1
    /\ last_reading = recorded[1]
    /\ data_history = recorded

(* --------------------------- status snapshots -------------------------- *)

\* get_connection_status with one step of another thread inside it.  Lines
\* 285-286 and line 289 read last_data_received and is_connected; is_healthy()
\* at line 290 and the reads of lines 291 and 294 come after them, and the
\* method holds no lock: unprimed is what it read before that step, primed
\* what it read after.
get_connection_status ==
    [is_connected       |-> is_connected,
     is_healthy         |-> is_healthy',
     last_data_received |-> last_data_received',
     data_age_seconds   |-> IF last_data_received # NoTime
                            THEN now - last_data_received ELSE NoTime,
     max_silence_time   |-> max_silence_time,
     data_history_size  |-> Len(data_history')]

\* C23 (as claimed): no status snapshot reports is_healthy true together with
\* is_connected false, nor is_healthy true with last_data_received absent,
\* whatever the ingestion and health threads do during the query.
C23_StatusConsistent ==
    [][/\ get_connection_status.is_healthy => get_connection_status.is_connected
       /\ get_connection_status.is_healthy =>
              get_connection_status.last_data_received # NoTime]_vars

(* ------------------------ after the ingestion exit --------------------- *)

\* The ingestion loop has exited while start() is still in its main loop:
\* it exited on a fault, the stop signal not being raised.
FaultExited == rpc = "done" /\ spc = "main"

\* C24: nothing inside the reader restarts the ingestion thread.  Once its
\* loop has exited, the thread stays exited until start() launches a new one,
\* and no reading is recorded meanwhile, however often the health thread
\* reopens the link; a silence the health thread can find stays one; and as
\* long as start() stays in its main loop, the health thread comes back to
\* closing and reopening the link again and again.
C24_NoRestart ==
    /\ [][rpc = "done" =>
             /\ readings' = readings
             /\ recorded' = recorded
             /\ (rpc' = "done" \/ spc = "launch")]_vars
    /\ [][(FaultExited /\ SilenceFound) => SilenceFound']_vars
    /\ (FaultExited /\ SilenceFound) ~> (hpc = "conn" \/ ~FaultExited)

\* The ingestion loop has exited on a fault after recording a reading, that
\* reading is now too old, and the health thread is about to reopen the link.
C24_Witness ==
    /\ FaultExited
    /\ recorded # <<>>
    /\ now - last_data_received > max_silence_time
    /\ hpc = "conn"
    /\ serial_connection = None

====
